---- MODULE Spec2Model ----
(***************************************************************************)
(* Huffman coder of src/huffman_optimized.py: the HuffmanCoder class       *)
(* (frequency table, heap-based tree construction, codebook, encode and    *)
(* decode), the binary container (save_compressed / load_compressed) and   *)
(* the two file pipelines (compress_file / decompress_file).               *)
(*                                                                         *)
(* Representation.  A character is its code point (ord(char)), a text is a *)
(* sequence of code points, a bit string ('0'/'1' characters) is a         *)
(* sequence over {0, 1}.  A Python dict (insertion ordered) is a sequence  *)
(* of <<key, value>> pairs with distinct keys.  A file is a sequence of    *)
(* bytes (0..255).  A HuffmanNode is a record with the four slots of the   *)
(* class; the Python value None is NoChar for the char slot and None for a *)
(* node reference.                                                         *)
(***************************************************************************)
EXTENDS Integers, Sequences, FiniteSets, TLC

\* ------------------------------------------------------------------ bounds
\* Longest text handed to encode / compress_file.
MaxLen == 3
\* Longest raw bit string handed to decode in the coder specification.
MaxBits == 3
\* Longest bit string handed to save_compressed in the codec specification.
MaxStream == 8
\* Most entries of a frequency table handed to save_compressed.
MaxSyms == 2
\* Largest frequency of a table handed to _build_huffman_tree on its own.
MaxFreq == 2

\* Longest text in the input file of compress_file.
MaxText == 4

\* Characters of the texts (all inside the 16-bit range of the container).
Alphabet == {97, 98, 99}
\* Symbols and counts of the tables handed to save_compressed directly:
\* both ends of the 16-bit field, a count whose four bytes differ and the
\* largest count TLC's integers hold (2^31 - 1).
CodecSymbols == {0, 353, 65535}
CodecFreqs == {16909060, 2147483647}
\* Padding bytes written over the stored one (outside 0..7).
BadPaddings == {8, 9, 255}
\* Symbol counts written over a smaller stored one.
Counts == 1..5
\* Symbols of the tables handed to _build_huffman_tree on its own.
BuildAlphabet == {97, 98, 99, 100}

\* ------------------------------------------------------------- HuffmanNode
\* None as the value of a `char` slot.
NoChar == -1
\* None as the value of a node reference (`left`, `right`, `_tree`).
None == [none |-> TRUE]

HuffmanNode(char, freq, left, right) ==
    [char |-> char, freq |-> freq, left |-> left, right |-> right]

\* HuffmanNode.__lt__: weight only.
lt(self, other) == self.freq < other.freq

\* ------------------------------------------------------------------- dicts
\* Position of key k in dict d, 0 when absent.
DictIndex(d, k) ==
    IF \E i \in 1..Len(d) : d[i][1] = k
    THEN CHOOSE i \in 1..Len(d) : d[i][1] = k
    ELSE 0

DictHas(d, k) == DictIndex(d, k) # 0
DictGet(d, k) == d[DictIndex(d, k)][2]
\* d[k] = v: an existing key keeps its place, a new one goes last.
DictSet(d, k, v) ==
    IF DictHas(d, k)
    THEN [d EXCEPT ![DictIndex(d, k)] = <<k, v>>]
    ELSE Append(d, <<k, v>>)
DictKeys(d) == {d[i][1] : i \in 1..Len(d)}

\* ------------------------------------------------------------------- heapq
\* heapq._siftdown(heap, startpos, pos), positions 0-based as in Python.
RECURSIVE siftdown_loop(_, _, _, _)
siftdown_loop(heap, startpos, pos, newitem) ==
    IF pos > startpos
    THEN LET parentpos == (pos - 1) \div 2
             parent == heap[parentpos + 1]
         IN  IF lt(newitem, parent)
             THEN siftdown_loop([heap EXCEPT ![pos + 1] = parent],
                                startpos, parentpos, newitem)
             ELSE [heap EXCEPT ![pos + 1] = newitem]
    ELSE [heap EXCEPT ![pos + 1] = newitem]

siftdown(heap, startpos, pos) ==
    siftdown_loop(heap, startpos, pos, heap[pos + 1])

\* heapq._siftup(heap, pos): bubble the smaller child up to a leaf, then
\* sift the displaced item down from there.
RECURSIVE siftup_loop(_, _, _, _)
siftup_loop(heap, startpos, pos, newitem) ==
    LET endpos == Len(heap)
        childpos == 2 * pos + 1
        rightpos == childpos + 1
        smaller == IF rightpos < endpos
                      /\ ~ lt(heap[childpos + 1], heap[rightpos + 1])
                   THEN rightpos ELSE childpos
    IN  IF childpos < endpos
        THEN siftup_loop([heap EXCEPT ![pos + 1] = heap[smaller + 1]],
                         startpos, smaller, newitem)
        ELSE siftdown_loop([heap EXCEPT ![pos + 1] = newitem],
                           startpos, pos, newitem)

siftup(heap, pos) == siftup_loop(heap, pos, pos, heap[pos + 1])

\* heapq.heapify(x): for i in reversed(range(n // 2)): _siftup(x, i).
RECURSIVE heapify_from(_, _)
heapify_from(x, i) ==
    IF i < 0 THEN x ELSE heapify_from(siftup(x, i), i - 1)

heapify(x) == heapify_from(x, (Len(x) \div 2) - 1)

\* heapq.heappop(heap): <<returned item, heap afterwards>>.
heappop(heap) ==
    LET lastelt == heap[Len(heap)]
        rest == SubSeq(heap, 1, Len(heap) - 1)
    IN  IF rest # <<>>
        THEN <<rest[1], siftup([rest EXCEPT ![1] = lastelt], 0)>>
        ELSE <<lastelt, rest>>

\* heapq.heappush(heap, item).
heappush(heap, item) == siftdown(Append(heap, item), 0, Len(heap))

\* ------------------------------------------------------------ HuffmanCoder
RECURSIVE _build_frequency_table_from(_, _)
_build_frequency_table_from(data, frequency) ==
    IF data = <<>> THEN frequency
    ELSE LET char == Head(data)
             old  == IF DictHas(frequency, char)
                     THEN DictGet(frequency, char) ELSE 0
         IN  _build_frequency_table_from(Tail(data),
                                        DictSet(frequency, char, old + 1))

\* HuffmanCoder._build_frequency_table.
_build_frequency_table(data) == _build_frequency_table_from(data, <<>>)

RECURSIVE leaves(_)
\* [HuffmanNode(char=char, freq=freq) for char, freq in frequency.items()]
leaves(frequency) ==
    IF frequency = <<>> THEN <<>>
    ELSE <<HuffmanNode(Head(frequency)[1], Head(frequency)[2], None, None)>>
         \o leaves(Tail(frequency))

\* A merge that puts the second extracted node on the left.
merged_node_swapped(left, right) ==
    HuffmanNode(NoChar, left.freq + right.freq, right, left)

\* HuffmanNode(freq=left.freq + right.freq, left=left, right=right)
merged_node(left, right) ==
    HuffmanNode(NoChar, left.freq + right.freq, left, right)

\* The two heappop calls of one pass of the merge loop.
pops(nodes) ==
    LET p1 == heappop(nodes)
        p2 == heappop(p1[2])
    IN  [left |-> p1[1], right |-> p2[1], rest |-> p2[2]]

\* One pass of the merge loop of _build_huffman_tree on the heap `nodes`.
merge(nodes) ==
    LET p == pops(nodes)
    IN  heappush(p.rest, merged_node(p.left, p.right))

RECURSIVE merge_loop(_)
merge_loop(nodes) ==
    IF Len(nodes) > 1 THEN merge_loop(merge(nodes)) ELSE nodes

\* return nodes[0] if nodes else HuffmanNode()
root_of(nodes) ==
    IF nodes # <<>> THEN nodes[1] ELSE HuffmanNode(NoChar, 0, None, None)

\* HuffmanCoder._build_huffman_tree.
_build_huffman_tree(frequency) ==
    root_of(merge_loop(heapify(leaves(frequency))))

\* A walk that gives both children the same extension.
child_code_same(code, bit) == Append(code, 0)

\* code + "0" / code + "1": the code of a child.
child_code(code, bit) == Append(code, bit)

\* The stack loop of _build_codebook.
RECURSIVE codebook_loop(_, _)
codebook_loop(stack, codebook) ==
    IF stack = <<>> THEN codebook
    ELSE LET top   == stack[Len(stack)]
             node  == top[1]
             code  == top[2]
             rest  == SubSeq(stack, 1, Len(stack) - 1)
             withR == IF node.right # None
                      THEN Append(rest, <<node.right, child_code(code, 1)>>)
                      ELSE rest
             withL == IF node.left # None
                      THEN Append(withR, <<node.left, child_code(code, 0)>>)
                      ELSE withR
         IN  IF node.char # NoChar
             THEN codebook_loop(rest, DictSet(codebook, node.char, code))
             ELSE codebook_loop(withL, codebook)

\* HuffmanCoder._build_codebook on the fields (_tree, _codebook); the result
\* is the new _codebook.
_build_codebook(tree, codebook) ==
    IF tree = None THEN codebook
    ELSE codebook_loop(<<(<<tree, <<>>>>)>>, codebook)

RECURSIVE join_codes(_, _)
\* ''.join(self._codebook[char] for char in data)
join_codes(codebook, data) ==
    IF data = <<>> THEN <<>>
    ELSE DictGet(codebook, Head(data)) \o join_codes(codebook, Tail(data))

\* The walk of decode over the bits: the output so far, the pointer, and
\* whether None was dereferenced (AttributeError on None.char).
RECURSIVE decode_loop(_, _, _, _)
decode_loop(tree, bits, current_node, decoded_data) ==
    IF bits = <<>>
    THEN [out |-> decoded_data, node |-> current_node, error |-> FALSE]
    ELSE LET next == IF Head(bits) = 0
                     THEN current_node.left ELSE current_node.right
         IN  IF next = None
             THEN [out |-> decoded_data, node |-> None, error |-> TRUE]
             ELSE IF next.char # NoChar
                  THEN decode_loop(tree, Tail(bits), tree,
                                   Append(decoded_data, next.char))
                  ELSE decode_loop(tree, Tail(bits), next, decoded_data)

\* HuffmanCoder.decode against the field _tree.
decode(tree, encoded_data) ==
    IF encoded_data = <<>> \/ tree = None
    THEN [out |-> <<>>, node |-> tree, error |-> FALSE]
    ELSE decode_loop(tree, encoded_data, tree, <<>>)

\* --------------------------------------------------------------- container
\* struct.pack('>I', v): four bytes, most significant first.
pack_I(v) ==
    <<(v \div 16777216) % 256, (v \div 65536) % 256, (v \div 256) % 256, v % 256>>
\* struct.pack('>H', v): two bytes, most significant first.
pack_H(v) == <<(v \div 256) % 256, v % 256>>
\* struct.pack('B', v)
pack_B(v) == <<v % 256>>

\* struct.unpack('>I', b)[0]
unpack_I(b) == b[1] * 16777216 + b[2] * 65536 + b[3] * 256 + b[4]
\* struct.unpack('>H', b)[0]
unpack_H(b) == b[1] * 256 + b[2]
\* struct.unpack('B', b)[0]
unpack_B(b) == b[1]

\* padding = 8 - len(encoded_data) % 8 if len(encoded_data) % 8 != 0 else 0
padding_of(encoded_data) ==
    IF Len(encoded_data) % 8 # 0 THEN 8 - (Len(encoded_data) % 8) ELSE 0

RECURSIVE zeros(_)
\* '0' * n
zeros(n) == IF n <= 0 THEN <<>> ELSE <<0>> \o zeros(n - 1)

\* int(s, 2) for a string s of eight bits.
int2(s) ==
    s[1] * 128 + s[2] * 64 + s[3] * 32 + s[4] * 16
        + s[5] * 8 + s[6] * 4 + s[7] * 2 + s[8]

\* format(byte, '08b')
format08b(byte) ==
    <<(byte \div 128) % 2, (byte \div 64) % 2, (byte \div 32) % 2,
      (byte \div 16) % 2, (byte \div 8) % 2, (byte \div 4) % 2,
      (byte \div 2) % 2, byte % 2>>

RECURSIVE pack_bits(_)
\* bytes(int(padded_data[i:i+8], 2) for i in range(0, len(padded_data), 8))
pack_bits(padded_data) ==
    IF padded_data = <<>> THEN <<>>
    ELSE <<int2(SubSeq(padded_data, 1, 8))>>
         \o pack_bits(SubSeq(padded_data, 9, Len(padded_data)))

RECURSIVE unpack_bits(_)
\* ''.join(format(byte, '08b') for byte in bytes_data)
unpack_bits(bytes_data) ==
    IF bytes_data = <<>> THEN <<>>
    ELSE format08b(Head(bytes_data)) \o unpack_bits(Tail(bytes_data))

RECURSIVE pack_entries(_)
\* the (symbol, frequency) pairs in table order, six bytes each
pack_entries(frequency) ==
    IF frequency = <<>> THEN <<>>
    ELSE pack_H(Head(frequency)[1]) \o pack_I(Head(frequency)[2])
         \o pack_entries(Tail(frequency))

\* save_compressed: the bytes written to output_file.
save_compressed(encoded_data, frequency) ==
    LET padding     == padding_of(encoded_data)
        padded_data == encoded_data \o zeros(padding)
        bytes_data  == pack_bits(padded_data)
    IN  pack_I(Len(frequency)) \o pack_B(padding)
            \o pack_entries(frequency) \o bytes_data

\* A read that fills what the file lacks with zero bytes.
read_zero_filled(file, pos, n) ==
    SubSeq(file \o zeros(pos + n - Len(file)), pos + 1, pos + n)

\* file.read(n) at offset pos: at most n bytes, fewer at the end of file.
read(file, pos, n) ==
    SubSeq(file, pos + 1, IF pos + n < Len(file) THEN pos + n ELSE Len(file))

\* An entry stored in front of the ones read before it.
store_entry_first(frequency, char, freq) == <<(<<char, freq>>)>> \o frequency

\* frequency[char] = freq
store_entry(frequency, char, freq) == DictSet(frequency, char, freq)

\* A strip that leaves the padding bits in place.
strip_padding_none(bit_string, padding) == bit_string

\* bit_string[:-padding] if padding > 0
strip_padding(bit_string, padding) ==
    IF padding > 0
    THEN SubSeq(bit_string, 1, Len(bit_string) - padding)
    ELSE bit_string

\* What load_compressed gives when struct.unpack gets too few bytes.
LoadError == [error |-> TRUE, bits |-> <<>>, frequency |-> <<>>]

\* The loop over num_symbols entries, from offset pos on.
RECURSIVE load_entries(_, _, _, _)
load_entries(file, pos, remaining, frequency) ==
    IF remaining = 0
    THEN [error |-> FALSE, pos |-> pos, frequency |-> frequency]
    ELSE LET b2 == read(file, pos, 2)
             b4 == read(file, pos + 2, 4)
         IN  IF Len(b2) # 2 \/ Len(b4) # 4
             THEN [error |-> TRUE, pos |-> pos, frequency |-> frequency]
             ELSE load_entries(file, pos + 6, remaining - 1,
                      store_entry(frequency, unpack_H(b2), unpack_I(b4)))

\* load_compressed: (bit_string, frequency), or the struct.error raised.
load_compressed(file) ==
    LET h4 == read(file, 0, 4)
        h1 == read(file, 4, 1)
    IN  IF Len(h4) # 4 \/ Len(h1) # 1 THEN LoadError
        ELSE LET num_symbols == unpack_I(h4)
                 padding     == unpack_B(h1)
                 entries     == load_entries(file, 5, num_symbols, <<>>)
             IN  IF entries.error THEN LoadError
                 ELSE LET bytes_data == SubSeq(file, entries.pos + 1, Len(file))
                          bit_string == unpack_bits(bytes_data)
                      IN  [error |-> FALSE,
                           bits |-> strip_padding(bit_string, padding),
                           frequency |-> entries.frequency]

\* ------------------------------------------------------------------ inputs
Range(s) == {s[i] : i \in 1..Len(s)}
SeqsUpTo(S, n) == UNION {[1..k -> S] : k \in 0..n}
Texts == SeqsUpTo(Alphabet, MaxLen)
BitStrings(n) == SeqsUpTo({0, 1}, n)
FileTexts == SeqsUpTo(Alphabet, MaxText)
\* Frequency tables: distinct symbols, in any order.
Tables ==
    {t \in SeqsUpTo(CodecSymbols \X CodecFreqs, MaxSyms) :
        \A i, j \in 1..Len(t) : i # j => t[i][1] # t[j][1]}

\* ------------------------------------------------------------------- state
VARIABLES
    \* one HuffmanCoder object
    tree,       \* self._tree
    codebook,   \* self._codebook
    op,         \* the last method called on the coder: init, encode, decode
    data,       \* argument of the most recent encode call
    encoded,    \* bit string returned by the most recent encode call
    frequency,  \* frequency table returned by the most recent encode call
    stream,     \* argument of the most recent decode call
    result      \* outcome of the most recent decode call

VARIABLES
    \* the container codec and the two file pipelines
    pc,         \* position in the pipeline
    bits_in,    \* encoded_data handed to save_compressed
    table_in,   \* frequency handed to save_compressed
    text,       \* content of the input file of compress_file
    file,       \* bytes of the container file
    tamper,     \* what was done to the container after it was written
    loaded,     \* what load_compressed returned
    enc_tree,   \* coder._tree inside compress_file
    dec_tree,   \* coder._tree inside decompress_file
    output      \* the output file of decompress_file

VARIABLES
    \* one run of _build_huffman_tree, pass by pass
    bpc,        \* position: start, loop, done
    table,      \* the frequency table it was called with
    nodes,      \* the heap
    left,       \* the node extracted first in the last pass
    right,      \* the node extracted second in the last pass
    merges,     \* passes of the merge loop so far
    root        \* the node returned

coderVars == <<tree, codebook, op, data, encoded, frequency, stream, result>>
fileVars == <<pc, bits_in, table_in, text, file, tamper, loaded,
              enc_tree, dec_tree, output>>
buildVars == <<bpc, table, nodes, left, right, merges, root>>
vars == <<coderVars, fileVars, buildVars>>

NoResult == [out |-> <<>>, node |-> None, error |-> FALSE]

\* HuffmanCoder.__init__
InitCoder ==
    /\ tree = None
    /\ codebook = <<>>
    /\ op = "init"
    /\ data = <<>>
    /\ encoded = <<>>
    /\ frequency = <<>>
    /\ stream = <<>>
    /\ result = NoResult

NoLoad == [error |-> FALSE, bits |-> <<>>, frequency |-> <<>>]
NoOutput == [written |-> FALSE, content |-> <<>>]

\* No container, nothing read or written yet.
InitFiles ==
    /\ pc = "idle"
    /\ bits_in = <<>>
    /\ table_in = <<>>
    /\ text = <<>>
    /\ file = <<>>
    /\ tamper = "none"
    /\ loaded = NoLoad
    /\ enc_tree = None
    /\ dec_tree = None
    /\ output = NoOutput

\* _build_huffman_tree not called.
InitBuilder ==
    /\ bpc = "idle"
    /\ table = <<>>
    /\ nodes = <<>>
    /\ left = None
    /\ right = None
    /\ merges = 0
    /\ root = None

\* HuffmanCoder.encode(T)
Encode(T) ==
    /\ UNCHANGED <<fileVars, buildVars>>
    /\ op' = "encode"
    /\ data' = T
    /\ stream' = <<>>
    /\ result' = NoResult
    /\ IF T = <<>>
       THEN /\ encoded' = <<>>
            /\ frequency' = <<>>
            /\ UNCHANGED <<tree, codebook>>
       ELSE /\ frequency' = _build_frequency_table(T)
            /\ tree' = _build_huffman_tree(frequency')
            /\ codebook' = _build_codebook(tree', <<>>)
            /\ encoded' = join_codes(codebook', T)

\* HuffmanCoder.decode(E)
Decode(E) ==
    /\ UNCHANGED <<fileVars, buildVars>>
    /\ op' = "decode"
    /\ stream' = E
    /\ result' = decode(tree, E)
    /\ UNCHANGED <<tree, codebook, data, encoded, frequency>>

\* decode applied to the bit string the last encode returned
DecodeEncoded == op = "encode" /\ Decode(encoded)

\* decode applied to any bit string
DecodeStream == \E E \in BitStrings(MaxBits) : Decode(E)

EncodeText == \E T \in Texts : Encode(T)

Init == InitCoder /\ InitFiles /\ InitBuilder
Next == EncodeText \/ DecodeEncoded \/ DecodeStream
Spec == Init /\ [][Next]_vars

\* ------------------------------------------ save_compressed / load_compressed
InitCodec ==
    /\ InitCoder
    /\ InitBuilder
    /\ pc = "start"
    /\ bits_in \in BitStrings(MaxStream)
    /\ table_in \in Tables
    /\ text = <<>>
    /\ file = <<>>
    /\ tamper = "none"
    /\ loaded = NoLoad
    /\ enc_tree = None
    /\ dec_tree = None
    /\ output = NoOutput

\* save_compressed(output_file, bits_in, table_in)
SaveCompressed ==
    /\ pc = "start"
    /\ file' = save_compressed(bits_in, table_in)
    /\ pc' = "saved"
    /\ UNCHANGED <<bits_in, table_in, text, tamper, loaded,
                   enc_tree, dec_tree, output>>
    /\ UNCHANGED <<coderVars, buildVars>>

\* load_compressed(input_file)
LoadCompressed ==
    /\ pc = "saved"
    /\ loaded' = load_compressed(file)
    /\ pc' = "loaded"
    /\ UNCHANGED <<bits_in, table_in, text, file, tamper,
                   enc_tree, dec_tree, output>>
    /\ UNCHANGED <<coderVars, buildVars>>

NextCodec == SaveCompressed \/ LoadCompressed
SpecCodec == InitCodec /\ [][NextCodec]_vars

\* ------------------------------------------- compress_file / decompress_file
InitFile ==
    /\ InitCoder
    /\ InitBuilder
    /\ pc = "start"
    /\ text \in FileTexts
    /\ bits_in = <<>>
    /\ table_in = <<>>
    /\ file = <<>>
    /\ tamper = "none"
    /\ loaded = NoLoad
    /\ enc_tree = None
    /\ dec_tree = None
    /\ output = NoOutput

\* compress_file: a fresh coder encodes the text, save_compressed writes
\* the container.
CompressFile ==
    /\ pc = "start"
    /\ LET fr  == IF text = <<>> THEN <<>> ELSE _build_frequency_table(text)
           tr  == IF text = <<>> THEN None ELSE _build_huffman_tree(fr)
           cb  == _build_codebook(tr, <<>>)
           enc == IF text = <<>> THEN <<>> ELSE join_codes(cb, text)
       IN  /\ bits_in' = enc
           /\ table_in' = fr
           /\ enc_tree' = tr
           /\ file' = save_compressed(enc, fr)
    /\ pc' = "compressed"
    /\ UNCHANGED <<text, tamper, loaded, dec_tree, output>>
    /\ UNCHANGED <<coderVars, buildVars>>

\* The container loses its end: only its first n bytes remain.
Truncate ==
    /\ pc = "compressed"
    /\ tamper \in {"none", "count"}
    /\ \E n \in 0..(Len(file) - 1) : file' = SubSeq(file, 1, n)
    /\ tamper' = "truncated"
    /\ UNCHANGED <<pc, bits_in, table_in, text, loaded,
                   enc_tree, dec_tree, output>>
    /\ UNCHANGED <<coderVars, buildVars>>

\* The symbol_count field is overwritten with a larger count.
SetSymbolCount ==
    /\ pc = "compressed"
    /\ tamper = "none"
    /\ \E k \in Counts :
          /\ k > Len(table_in)
          /\ file' = pack_I(k) \o SubSeq(file, 5, Len(file))
    /\ tamper' = "count"
    /\ UNCHANGED <<pc, bits_in, table_in, text, loaded,
                   enc_tree, dec_tree, output>>
    /\ UNCHANGED <<coderVars, buildVars>>

\* The padding byte is overwritten with a value outside 0..7.
SetPadding ==
    /\ pc = "compressed"
    /\ tamper = "none"
    /\ \E p \in BadPaddings : file' = [file EXCEPT ![5] = p]
    /\ tamper' = "padding"
    /\ UNCHANGED <<pc, bits_in, table_in, text, loaded,
                   enc_tree, dec_tree, output>>
    /\ UNCHANGED <<coderVars, buildVars>>

\* decompress_file: load_compressed, rebuild the tree from the loaded
\* table, decode, write_file.  A struct.error of load_compressed or an
\* AttributeError of decode ends it before write_file.
DecompressFile ==
    /\ pc = "compressed"
    /\ loaded' = load_compressed(file)
    /\ IF loaded'.error
       THEN /\ pc' = "error"
            /\ UNCHANGED <<dec_tree, output>>
       ELSE /\ dec_tree' = _build_huffman_tree(loaded'.frequency)
            /\ LET r == decode(dec_tree', loaded'.bits)
               IN  IF r.error
                   THEN /\ pc' = "error"
                        /\ UNCHANGED output
                   ELSE /\ pc' = "done"
                        /\ output' = [written |-> TRUE, content |-> r.out]
    /\ UNCHANGED <<bits_in, table_in, text, file, tamper, enc_tree>>
    /\ UNCHANGED <<coderVars, buildVars>>

NextFile ==
    CompressFile \/ Truncate \/ SetSymbolCount \/ SetPadding \/ DecompressFile
SpecFile == InitFile /\ [][NextFile]_vars

\* ------------------------------------------------------ _build_huffman_tree
\* Frequency tables over BuildAlphabet: distinct symbols, in any order.
BuildTables ==
    {t \in SeqsUpTo(BuildAlphabet \X (1..MaxFreq), Cardinality(BuildAlphabet)) :
        \A i, j \in 1..Len(t) : i # j => t[i][1] # t[j][1]}

InitBuild ==
    /\ InitCoder
    /\ InitFiles
    /\ bpc = "start"
    /\ table \in BuildTables
    /\ nodes = <<>>
    /\ left = None
    /\ right = None
    /\ merges = 0
    /\ root = None

\* nodes = [...]; heapq.heapify(nodes)
BuildStart ==
    /\ bpc = "start"
    /\ nodes' = heapify(leaves(table))
    /\ bpc' = "loop"
    /\ UNCHANGED <<table, left, right, merges, root>>
    /\ UNCHANGED <<coderVars, fileVars>>

\* one pass of: while len(nodes) > 1
MergeStep ==
    /\ bpc = "loop"
    /\ Len(nodes) > 1
    /\ left' = pops(nodes).left
    /\ right' = pops(nodes).right
    /\ nodes' = merge(nodes)
    /\ merges' = merges + 1
    /\ UNCHANGED <<bpc, table, root>>
    /\ UNCHANGED <<coderVars, fileVars>>

\* return nodes[0] if nodes else HuffmanNode()
BuildReturn ==
    /\ bpc = "loop"
    /\ Len(nodes) <= 1
    /\ root' = root_of(nodes)
    /\ bpc' = "done"
    /\ UNCHANGED <<table, nodes, left, right, merges>>
    /\ UNCHANGED <<coderVars, fileVars>>

NextBuild == BuildStart \/ MergeStep \/ BuildReturn
SpecBuild == InitBuild /\ [][NextBuild]_vars

\* ------------------------------------------------- claims on the coder
IsPrefix(a, b) == Len(a) <= Len(b) /\ SubSeq(b, 1, Len(a)) = a
DistinctSymbols(T) == Cardinality(Range(T))

\* C1: decode applied to the bit string returned by encode(T) yields T,
\* for the empty text, a text of one repeated character and a text of
\* several distinct characters.
C1_RoundTrip ==
    (op = "decode" /\ stream = encoded)
        => (result.error = FALSE /\ result.out = data)

\* C3: a text with exactly one distinct symbol gets a codebook of exactly
\* one entry whose code is one bit long.
C3_SingleSymbolCode ==
    (op = "encode" /\ DistinctSymbols(data) = 1)
        => (Len(codebook) = 1 /\ Len(codebook[1][2]) = 1)

\* C4: in the codebook encode generates from a non-empty text no symbol's
\* codeword is a prefix of (or equal to) another symbol's, and there is one
\* entry per distinct symbol of the text.
C4_PrefixFree ==
    /\ \A i, j \in 1..Len(codebook) :
           i # j => /\ codebook[i][1] # codebook[j][1]
                    /\ ~ IsPrefix(codebook[i][2], codebook[j][2])
    /\ (op = "encode" /\ data # <<>>)
           => /\ DictKeys(codebook) = Range(data)
              /\ Len(codebook) = DistinctSymbols(data)

C4_Witness ==
    /\ op = "encode"
    /\ DistinctSymbols(data) = 3
    /\ Len(codebook) = 3
    /\ \E i \in 1..3 : Len(codebook[i][2]) = 2

\* C8: a stream that ends with the decode pointer away from the root (in
\* the middle of a codeword) is reported as corruption, not returned as a
\* normal result.
C8_MidCodewordReported ==
    (op = "decode" /\ result.node # tree) => result.error = TRUE

\* C9: the tree and codebook the coder holds are the ones derived from the
\* text of the most recent encode call: none and empty when that text was
\* empty.
C9_FreshPerEncode ==
    op # "init" =>
        IF data = <<>>
        THEN tree = None /\ codebook = <<>>
        ELSE /\ tree = _build_huffman_tree(_build_frequency_table(data))
             /\ codebook = _build_codebook(tree, <<>>)

\* --------------------------------------------- claims on the container
\* C2: load_compressed applied to the file save_compressed wrote for the
\* bit string E and the table F returns exactly (E, F): the bits with the
\* padding stripped, the (symbol, frequency) pairs in the same order.
C2_ContainerRoundTrip ==
    pc = "loaded" =>
        /\ loaded.error = FALSE
        /\ loaded.bits = bits_in
        /\ loaded.frequency = table_in
        /\ file[5] = (IF Len(bits_in) % 8 = 0 THEN 0 ELSE 8 - (Len(bits_in) % 8))

C2_Witness ==
    /\ pc = "loaded"
    /\ Len(bits_in) % 8 = 3
    /\ Len(table_in) = 2
    /\ loaded.bits = bits_in

\* symbol_count of a container that holds its header.
SymbolCount(f) == unpack_I(SubSeq(f, 1, 4))
\* Whole (symbol, frequency) entries between the header and the end of file.
EntriesPresent(f) == (Len(f) - 5) \div 6
Ended == pc \in {"done", "error"}

\* C5: when symbol_count is larger than the number of entries present
\* before the file ends, decompress_file ends in an error and write_file
\* is not reached.
C5_TruncatedEntries ==
    (Ended /\ Len(file) >= 5 /\ SymbolCount(file) > EntriesPresent(file))
        => (pc = "error" /\ output.written = FALSE)

C5_Witness ==
    /\ pc = "error"
    /\ Len(file) = 17
    /\ SymbolCount(file) = 5
    /\ EntriesPresent(file) = 2
    /\ output.written = FALSE

\* C6: when the padding byte holds a value outside 0..7, decompress_file
\* stops with an error: nothing is stripped, decoded or written.
C6_BadPaddingRejected ==
    (Ended /\ Len(file) >= 5 /\ file[5] \notin 0..7)
        => (pc = "error" /\ output.written = FALSE)

\* C7: for a non-empty text, the tree decompress_file rebuilds from the
\* table load_compressed returns is the tree encode built before
\* save_compressed: same shape, same symbol at every leaf; the table has
\* the same order on both sides.
C7_SameTree ==
    (Ended /\ tamper = "none" /\ text # <<>>)
        => /\ pc = "done"
           /\ loaded.frequency = table_in
           /\ dec_tree = enc_tree

C7_Witness ==
    /\ pc = "done"
    /\ tamper = "none"
    /\ Len(table_in) = 3
    /\ table_in[1][2] = table_in[2][2]
    /\ dec_tree = enc_tree
    /\ dec_tree.right.char = NoChar

\* ---------------------------------------------- claims on the tree builder
Count(x, s) == Cardinality({i \in 1..Len(s) : s[i] = x})

RECURSIVE SumFreq(_)
SumFreq(t) == IF t = <<>> THEN 0 ELSE Head(t)[2] + SumFreq(Tail(t))

RECURSIVE Strict(_)
\* A leaf with a symbol and no child, or a symbol-less node with two
\* children whose weight is the sum of theirs.
Strict(n) ==
    IF n.char # NoChar
    THEN n.left = None /\ n.right = None
    ELSE /\ n.left # None
         /\ n.right # None
         /\ n.freq = n.left.freq + n.right.freq
         /\ Strict(n.left)
         /\ Strict(n.right)

\* The guard of one of the three steps of the builder holds.
CanStep ==
    \/ bpc = "start"
    \/ bpc = "loop" /\ Len(nodes) > 1
    \/ bpc = "loop" /\ Len(nodes) <= 1

C10_Result ==
    /\ bpc = "done" \/ CanStep
    /\ bpc \in {"loop", "done"} /\ table # <<>>
          => /\ merges + Len(nodes) = Len(table)
             /\ \A i \in 1..Len(nodes) : Strict(nodes[i])
    /\ bpc = "done"
          => IF table = <<>>
             THEN /\ merges = 0
                  /\ root = HuffmanNode(NoChar, 0, None, None)
             ELSE /\ merges = Len(table) - 1
                  /\ Len(nodes) = 1
                  /\ root = nodes[1]
                  /\ root.freq = SumFreq(table)

C10_Pass ==
    /\ bpc = "loop" => (Len(nodes') < Len(nodes) \/ bpc' = "done")
    /\ merges' = merges + 1 =>
        LET merged == HuffmanNode(NoChar, left'.freq + right'.freq, left', right')
        IN  /\ \E i, j \in 1..Len(nodes) :
                  /\ i # j
                  /\ nodes[i] = left'
                  /\ nodes[j] = right'
                  /\ \A m \in 1..Len(nodes) : left'.freq <= nodes[m].freq
                  /\ \A m \in 1..Len(nodes) :
                         m # i => right'.freq <= nodes[m].freq
            /\ Len(nodes') = Len(nodes) - 1
            /\ \A x \in Range(nodes) \cup Range(nodes') :
                  Count(x, nodes') =
                      Count(x, nodes)
                          - (IF x = left' THEN 1 ELSE 0)
                          - (IF x = right' THEN 1 ELSE 0)
                          + (IF x = merged THEN 1 ELSE 0)

\* C10: for a table of k >= 1 symbols the merge loop ends (every pass
\* shortens the queue and a step is possible until the return) after exactly
\* k - 1 passes with one node left; every pass removes the two nodes of
\* least weight and inserts a node whose left child is the first extracted,
\* whose right child is the second and whose weight is their sum, so every
\* internal node has two children and the root weighs the sum of all
\* frequencies; for an empty table the result has no symbol and no child.
C10_MergeLoop ==
    /\ []C10_Result
    /\ [][C10_Pass]_vars

C10_Witness ==
    /\ bpc = "done"
    /\ Len(table) = 4
    /\ merges = 3
    /\ table[1][2] = table[2][2]
    /\ root.freq = SumFreq(table)
====
